---- MODULE Spec2Model ----
(***************************************************************************)
(* TranspileAI: the Python gRPC test server (src/python/server.py) and the *)
(* example callables (src/examples/simple_math/impl.py).                   *)
(*                                                                         *)
(* The model covers TranspileTestServiceImpl: the method registry          *)
(* (methods, method_metadata), the session store (contexts) holding        *)
(* ExecutionContext objects, and the four request handlers CreateContext,  *)
(* InvokeMethod, InspectState and DestroyContext, together with the JSON   *)
(* conversions (json.loads / json.dumps) the handlers go through.          *)
(***************************************************************************)
EXTENDS Integers, Sequences, FiniteSets, TLC

(***************************************************************************)
(* Bounds of the model.                                                    *)
(***************************************************************************)
\* How many context ids uuid4 can hand out.
MaxIds == 2
\* The largest total of the counters held in the live sessions (Python ints
\* are unbounded).
MaxNum == 2
\* How many workers of the thread pool handle requests at the same time
\* (serve() starts the pool with max_workers=10).
MaxWorkers == 2
\* How many register_function calls are made one by one.
MaxRegs == 2

(***************************************************************************)
(* JSON values.  A Python value that json.loads can produce is a record    *)
(* [t, n, s, items]: its type tag t, and its number n, its string s or its *)
(* items, whichever the type has (the others are 0, "" and <<>>).  A dict  *)
(* is the sequence of its items [key, val] in insertion order, a list the  *)
(* sequence of its elements; a bool holds 1 or 0 in n.                     *)
(***************************************************************************)
Num(n) == [t |-> "num", n |-> n, s |-> "", items |-> <<>>]
Str(s) == [t |-> "str", n |-> 0, s |-> s, items |-> <<>>]
Bool(b) == [t |-> "bool", n |-> IF b THEN 1 ELSE 0, s |-> "", items |-> <<>>]
Null == [t |-> "null", n |-> 0, s |-> "", items |-> <<>>]
Arr(elems) == [t |-> "arr", n |-> 0, s |-> "", items |-> elems]
Obj(items) == [t |-> "obj", n |-> 0, s |-> "", items |-> items]

\* A punctuation lexeme of JSON text.  The other lexemes (number, string,
\* true/false, null literals) are written as the scalar value they denote.
P(c) == [t |-> "p", n |-> 0, s |-> c, items |-> <<>>]

IsScalar(x) == x.t \in {"num", "str", "bool", "null"}

(***************************************************************************)
(* Python dict operations on a sequence of items [key, val].               *)
(***************************************************************************)
DictKeys(items) == {items[i].key : i \in 1..Len(items)}

DictHas(items, k) == k \in DictKeys(items)

\* d.get(k, default)
DictGet(items, k, default) ==
    IF DictHas(items, k)
    THEN items[CHOOSE i \in 1..Len(items) : items[i].key = k].val
    ELSE default

\* d[k] = val: an existing key keeps its place, a new key goes last.
DictSet(items, k, val) ==
    IF DictHas(items, k)
    THEN [i \in 1..Len(items) |->
             IF items[i].key = k THEN [key |-> k, val |-> val] ELSE items[i]]
    ELSE Append(items, [key |-> k, val |-> val])

\* del d[k]
DictDel(items, k) == SelectSeq(items, LAMBDA it : it.key # k)

(***************************************************************************)
(* json.loads on a lexeme sequence: a recursive-descent parser.  A parse   *)
(* step returns [ok, val, next]: whether a value was read, the value, and  *)
(* the index of the first lexeme after it.                                 *)
(***************************************************************************)
ParseFail == [ok |-> FALSE, val |-> Null, next |-> 0]

RECURSIVE ParseValue(_, _)
RECURSIVE ParseMembers(_, _, _)
RECURSIVE ParseElements(_, _, _)

\* After "{" (or a ","): "key" ":" value, then "," or "}".
ParseMembers(toks, i, acc) ==
    IF i + 1 > Len(toks) \/ toks[i].t # "str" \/ toks[i + 1] # P(":")
    THEN ParseFail
    ELSE LET r == ParseValue(toks, i + 2) IN
         IF ~r.ok \/ r.next > Len(toks) THEN ParseFail
         ELSE LET items == DictSet(acc, toks[i].s, r.val) IN
              IF toks[r.next] = P(",") THEN ParseMembers(toks, r.next + 1, items)
              ELSE IF toks[r.next] = P("}")
                   THEN [ok |-> TRUE, val |-> Obj(items), next |-> r.next + 1]
                   ELSE ParseFail

\* After "[" (or a ","): value, then "," or "]".
ParseElements(toks, i, acc) ==
    LET r == ParseValue(toks, i) IN
    IF ~r.ok \/ r.next > Len(toks) THEN ParseFail
    ELSE LET elems == Append(acc, r.val) IN
         IF toks[r.next] = P(",") THEN ParseElements(toks, r.next + 1, elems)
         ELSE IF toks[r.next] = P("]")
              THEN [ok |-> TRUE, val |-> Arr(elems), next |-> r.next + 1]
              ELSE ParseFail

ParseValue(toks, i) ==
    IF i > Len(toks) THEN ParseFail
    ELSE IF IsScalar(toks[i]) THEN [ok |-> TRUE, val |-> toks[i], next |-> i + 1]
    ELSE IF toks[i] = P("{")
         THEN IF i + 1 <= Len(toks) /\ toks[i + 1] = P("}")
              THEN [ok |-> TRUE, val |-> Obj(<<>>), next |-> i + 2]
              ELSE ParseMembers(toks, i + 1, <<>>)
    ELSE IF toks[i] = P("[")
         THEN IF i + 1 <= Len(toks) /\ toks[i + 1] = P("]")
              THEN [ok |-> TRUE, val |-> Arr(<<>>), next |-> i + 2]
              ELSE ParseElements(toks, i + 1, <<>>)
    ELSE ParseFail

\* json.loads(text): [ok, val]; ok = FALSE stands for json.JSONDecodeError
\* (no value, or extra data after the value).
json_loads(toks) ==
    LET r == ParseValue(toks, 1) IN
    IF r.ok /\ r.next = Len(toks) + 1
    THEN [ok |-> TRUE, val |-> r.val]
    ELSE [ok |-> FALSE, val |-> Null]

(***************************************************************************)
(* json.dumps(value, default=str) to a lexeme sequence.  Every value of    *)
(* the model is JSON-representable, so the default=str fallback is never   *)
(* taken.                                                                  *)
(***************************************************************************)
RECURSIVE json_dumps(_)
RECURSIVE DumpItems(_, _)
RECURSIVE DumpElems(_, _)

DumpItems(items, i) ==
    IF i > Len(items) THEN <<>>
    ELSE (IF i > 1 THEN <<P(",")>> ELSE <<>>)
         \o <<Str(items[i].key), P(":")>> \o json_dumps(items[i].val)
         \o DumpItems(items, i + 1)

DumpElems(elems, i) ==
    IF i > Len(elems) THEN <<>>
    ELSE (IF i > 1 THEN <<P(",")>> ELSE <<>>)
         \o json_dumps(elems[i]) \o DumpElems(elems, i + 1)

json_dumps(x) ==
    IF IsScalar(x) THEN <<x>>
    ELSE IF x.t = "obj" THEN <<P("{")>> \o DumpItems(x.items, 1) \o <<P("}")>>
    ELSE <<P("[")>> \o DumpElems(x.items, 1) \o <<P("]")>>

(***************************************************************************)
(* Python operators the callables use.  An evaluation returns              *)
(* [raised, value, message]: raised = TRUE stands for an exception whose   *)
(* str() is message.                                                       *)
(***************************************************************************)
Returned(x) == [raised |-> FALSE, value |-> x, message |-> ""]
Raised(msg) == [raised |-> TRUE, value |-> Null, message |-> msg]

IsNumeric(x) == x.t \in {"num", "bool"}

\* bool is a subclass of int: True is 1 and False is 0.
IntOf(x) == x.n

\* x + y
PyAdd(x, y) ==
    IF IsNumeric(x) /\ IsNumeric(y) THEN Returned(Num(IntOf(x) + IntOf(y)))
    ELSE IF x.t = "str" /\ y.t = "str" THEN Returned(Str(x.s \o y.s))
    ELSE IF x.t = "arr" /\ y.t = "arr" THEN Returned(Arr(x.items \o y.items))
    ELSE Raised("unsupported operand type(s) for +")

(***************************************************************************)
(* ExecutionContext: an object with the fields context_id and state.       *)
(***************************************************************************)
\* A constructor that ignores initial_state; the code is not this one.
ExecutionContextInit_IgnoresSeed(context_id, initial_state) ==
    [context_id |-> context_id, state |-> Obj(<<>>)]

\* ExecutionContext.__init__(context_id, initial_state): state is {} unless
\* initial_state is non-empty and json.loads accepts it; only
\* json.JSONDecodeError is caught, so whatever json.loads returns is kept.
ExecutionContextInit(context_id, initial_state) ==
    [context_id |-> context_id,
     state |-> IF initial_state # <<>> /\ json_loads(initial_state).ok
               THEN json_loads(initial_state).val
               ELSE Obj(<<>>)]

\* ExecutionContext.get_state()
get_state(obj) == json_dumps(obj.state)

\* An update_state that does not write to the session; the code is not
\* this one.
update_state_Deferred(obj, key, value) ==
    IF obj.state.t = "obj"
    THEN [raised |-> FALSE, message |-> "", obj |-> obj]
    ELSE [raised |-> TRUE, message |-> "object does not support item assignment",
          obj |-> obj]

\* ExecutionContext.update_state(key, value): self.state[key] = value.
\* Returns [raised, message, obj]; item assignment raises TypeError when
\* state is not a dict (a list takes integer indices, the scalars none).
update_state(obj, key, value) ==
    IF obj.state.t = "obj"
    THEN [raised |-> FALSE, message |-> "",
          obj |-> [obj EXCEPT !.state = Obj(DictSet(obj.state.items, key, value))]]
    ELSE [raised |-> TRUE, message |-> "object does not support item assignment",
          obj |-> obj]

(***************************************************************************)
(* The program state.                                                      *)
(*   methods          self.methods: dict name -> callable (item sequence)  *)
(*   method_metadata  self.method_metadata: dict name -> metadata dict     *)
(*   contexts         self.contexts: dict context_id -> ExecutionContext,  *)
(*                    as a function from the ids present to object refs    *)
(*   heap             the ExecutionContext objects alive, by reference     *)
(*   issued           the ids uuid4 has returned so far                    *)
(*   serving          whether serve() has started the server               *)
(*   last             the last request handled and the response returned   *)
(* and two history variables, which no handler reads:                      *)
(*   destroyed        the ids a DestroyContext has answered success=True   *)
(*   calls            per live session created with the empty state {}, how *)
(*                    many times counter_increment ran on it (on the       *)
(*                    workers: how many invocations of it started), as     *)
(*                    long as no other callable took the session; -1       *)
(*                    otherwise                                            *)
(*   registered       the registrations made so far, oldest first          *)
(* and, for the handlers that run on the workers of the thread pool,       *)
(*   workers          per worker, the request it is handling and how far   *)
(*                    the handler has come                                 *)
(***************************************************************************)
VARIABLES methods, method_metadata, contexts, heap, issued, serving, last,
          destroyed, calls, registered, workers

vars == <<methods, method_metadata, contexts, heap, issued, serving, last,
          destroyed, calls, registered, workers>>

\* str(uuid.uuid4()): the ids the model can hand out.
Ids == {"ctx-" \o ToString(i) : i \in 1..MaxIds}

\* The workers of the thread pool.
Workers == 1..MaxWorkers

\* A worker with no request: pc is where its handler stands, op, method_name
\* and context_id are the request, ref the session object the handler holds
\* (exec_context) and current the counter its callable has read.
Idle == [pc |-> "idle", op |-> "", method_name |-> "", context_id |-> "",
         ref |-> "", current |-> 0]

\* The context_id values a request may carry: "" (the field left unset) or
\* an id, which names a live session, a destroyed one or none so far.
RequestIds == Ids \cup {""}

(***************************************************************************)
(* The callables.  The first seven are the tagged functions of impl.py;    *)
(* reset_and_fail stands for a callable of another module handed to        *)
(* register_function, one that updates the session and then raises an      *)
(* exception without a message:                                            *)
(*   def reset_and_fail(context):                                          *)
(*       context.update_state("counter", 0)                                *)
(*       raise RuntimeError()                                              *)
(***************************************************************************)
Callables ==
    {"add", "multiply", "fibonacci", "counter_increment", "counter_get",
     "factorial", "is_prime", "reset_and_fail"}

\* The parameter names of each callable's signature, in order.
Params(func) ==
    CASE func \in {"add", "multiply"} -> <<"context", "a", "b">>
      [] func \in {"fibonacci", "factorial", "is_prime"} -> <<"context", "n">>
      [] func \in {"counter_increment", "counter_get", "reset_and_fail"} ->
             <<"context">>

\* The outcome of running a callable: [raised, value, message, heap].
Outcome(r, hp) ==
    [raised |-> r.raised, value |-> r.value, message |-> r.message, heap |-> hp]

\* add(context, a, b): return a + b
add(a, b, hp) == Outcome(PyAdd(a, b), hp)

\* A counter_increment that returns the new value without storing it; the
\* code is not this one.
counter_increment_NoUpdate(isSession, ref, hp) ==
    IF ~isSession
    THEN Outcome(Raised("object has no attribute 'state'"), hp)
    ELSE IF hp[ref].state.t # "obj"
    THEN Outcome(Raised("object has no attribute 'get'"), hp)
    ELSE Outcome(PyAdd(DictGet(hp[ref].state.items, "counter", Num(0)), Num(1)),
                 hp)

\* A counter_increment that stores the new value in every session; the code
\* is not this one.
counter_increment_SharedState(isSession, ref, hp) ==
    IF ~isSession
    THEN Outcome(Raised("object has no attribute 'state'"), hp)
    ELSE IF hp[ref].state.t # "obj"
    THEN Outcome(Raised("object has no attribute 'get'"), hp)
    ELSE LET current == DictGet(hp[ref].state.items, "counter", Num(0))
             new_value == PyAdd(current, Num(1))
         IN IF new_value.raised THEN Outcome(new_value, hp)
            ELSE Outcome(new_value,
                         [r \in DOMAIN hp |->
                             update_state(hp[r], "counter", new_value.value).obj])

\* counter_increment(context).  isSession: context is an ExecutionContext
\* (at ref); otherwise it is a JSON value, which has no attribute state.
counter_increment(isSession, ref, hp) ==
    IF ~isSession
    THEN Outcome(Raised("object has no attribute 'state'"), hp)
    ELSE IF hp[ref].state.t # "obj"
    THEN Outcome(Raised("object has no attribute 'get'"), hp)
    ELSE LET current == DictGet(hp[ref].state.items, "counter", Num(0))
             new_value == PyAdd(current, Num(1))
         IN IF new_value.raised THEN Outcome(new_value, hp)
            ELSE LET u == update_state(hp[ref], "counter", new_value.value) IN
                 Outcome(new_value, [hp EXCEPT ![ref] = u.obj])

\* reset_and_fail(context): one update_state, then raise; str(e) is "".
reset_and_fail(isSession, ref, hp) ==
    IF ~isSession
    THEN Outcome(Raised("object has no attribute 'update_state'"), hp)
    ELSE LET u == update_state(hp[ref], "counter", Num(0)) IN
         IF u.raised THEN Outcome(Raised(u.message), hp)
         ELSE Outcome(Raised(""), [hp EXCEPT ![ref] = u.obj])

\* counter_get(context): return context.state.get("counter", 0)
counter_get(isSession, ref, hp) ==
    IF ~isSession
    THEN Outcome(Raised("object has no attribute 'state'"), hp)
    ELSE IF hp[ref].state.t # "obj"
    THEN Outcome(Raised("object has no attribute 'get'"), hp)
    ELSE Outcome(Returned(DictGet(hp[ref].state.items, "counter", Num(0))), hp)

RECURSIVE Repeat(_, _)
\* seq * n for a str or a list
Repeat(x, n) == IF n <= 0 THEN <<>> ELSE x \o Repeat(x, n - 1)

RECURSIVE RepeatStr(_, _)
RepeatStr(x, n) == IF n <= 0 THEN "" ELSE x \o RepeatStr(x, n - 1)

\* x * y
PyMul(x, y) ==
    IF IsNumeric(x) /\ IsNumeric(y) THEN Returned(Num(IntOf(x) * IntOf(y)))
    ELSE IF x.t = "str" /\ IsNumeric(y) THEN Returned(Str(RepeatStr(x.s, IntOf(y))))
    ELSE IF IsNumeric(x) /\ y.t = "str" THEN Returned(Str(RepeatStr(y.s, IntOf(x))))
    ELSE IF x.t = "arr" /\ IsNumeric(y) THEN Returned(Arr(Repeat(x.items, IntOf(y))))
    ELSE IF IsNumeric(x) /\ y.t = "arr" THEN Returned(Arr(Repeat(y.items, IntOf(x))))
    ELSE Raised("can't multiply sequence by non-int")

\* multiply(context, a, b): return a * b
multiply(a, b, hp) == Outcome(PyMul(a, b), hp)

RECURSIVE FibLoop(_, _, _, _)
\* for _ in range(i, n + 1): a, b = b, a + b;  return b
FibLoop(a, b, i, n) == IF i > n THEN b ELSE FibLoop(b, a + b, i + 1, n)

\* fibonacci(context, n); n <= 1 raises TypeError unless n is a number.
fibonacci(n, hp) ==
    IF ~IsNumeric(n) THEN Outcome(Raised("'<=' not supported"), hp)
    ELSE IF IntOf(n) <= 1 THEN Outcome(Returned(n), hp)
    ELSE Outcome(Returned(Num(FibLoop(0, 1, 2, IntOf(n)))), hp)

RECURSIVE FactRec(_)
FactRec(n) == IF n <= 1 THEN 1 ELSE n * FactRec(n - 1)

\* factorial(context, n)
factorial(n, hp) ==
    IF ~IsNumeric(n) THEN Outcome(Raised("'<=' not supported"), hp)
    ELSE Outcome(Returned(Num(FactRec(IntOf(n)))), hp)

\* int(n ** 0.5) for n >= 0
ISqrt(n) == CHOOSE k \in 0..n : k * k <= n /\ (k + 1) * (k + 1) > n

\* is_prime(context, n)
is_prime(n, hp) ==
    IF ~IsNumeric(n) THEN Outcome(Raised("'<' not supported"), hp)
    ELSE LET m == IntOf(n) IN
         IF m < 2 THEN Outcome(Returned(Bool(FALSE)), hp)
         ELSE IF m = 2 THEN Outcome(Returned(Bool(TRUE)), hp)
         ELSE IF m % 2 = 0 THEN Outcome(Returned(Bool(FALSE)), hp)
         ELSE Outcome(Returned(Bool(
                  ~\E i \in 3..ISqrt(m) : i % 2 = 1 /\ m % i = 0)), hp)

\* The body of func with its parameters bound: context (a session at ref,
\* or a JSON value) and the named arguments kw (a dict's items).
Body(func, isSession, ref, kw, hp) ==
    CASE func = "add" -> add(DictGet(kw, "a", Null), DictGet(kw, "b", Null), hp)
      [] func = "multiply" ->
             multiply(DictGet(kw, "a", Null), DictGet(kw, "b", Null), hp)
      [] func = "fibonacci" -> fibonacci(DictGet(kw, "n", Null), hp)
      [] func = "factorial" -> factorial(DictGet(kw, "n", Null), hp)
      [] func = "is_prime" -> is_prime(DictGet(kw, "n", Null), hp)
      [] func = "counter_increment" -> counter_increment(isSession, ref, hp)
      [] func = "counter_get" -> counter_get(isSession, ref, hp)
      [] func = "reset_and_fail" -> reset_and_fail(isSession, ref, hp)

\* A call that fails before the body runs (TypeError from the call itself).
NotCalled(msg, hp) ==
    [raised |-> TRUE, value |-> Null, message |-> msg, heap |-> hp, called |-> FALSE]

Called(o) ==
    [raised |-> o.raised, value |-> o.value, message |-> o.message,
     heap |-> o.heap, called |-> TRUE]

SeqToSet(s) == {s[i] : i \in 1..Len(s)}

\* func(**args): every parameter is bound by name.
CallStateless(func, args, hp) ==
    IF args.t # "obj" THEN NotCalled("argument after ** must be a mapping", hp)
    ELSE IF DictKeys(args.items) # SeqToSet(Params(func))
    THEN NotCalled("missing or unexpected keyword argument", hp)
    ELSE Called(Body(func, FALSE, "", args.items, hp))

\* func(exec_context, **args): the session is the first positional
\* parameter, the others are bound by name.
CallStateful(func, ref, args, hp) ==
    IF args.t # "obj" THEN NotCalled("argument after ** must be a mapping", hp)
    ELSE IF Params(func) = <<>>
    THEN NotCalled("takes 0 positional arguments but 1 was given", hp)
    ELSE IF DictKeys(args.items) # SeqToSet(Tail(Params(func)))
    THEN NotCalled("missing, unexpected or repeated argument", hp)
    ELSE Called(Body(func, TRUE, ref, args.items, hp))

(***************************************************************************)
(* The method registry.                                                    *)
(***************************************************************************)
Metadata(description, is_stateful, parameter_types, return_type) ==
    [description |-> description, is_stateful |-> is_stateful,
     parameter_types |-> parameter_types, return_type |-> return_type]

\* A tagged callable of a module: obj and its __transpile_test__ metadata.
Tagged(name, func, description, is_stateful, parameter_types, return_type) ==
    [name |-> name, func |-> func,
     meta |-> Metadata(description, is_stateful, parameter_types, return_type)]

\* impl.py, its tagged callables in the order of dir(module) (by name).
ExampleModule ==
    << Tagged("add", "add", "Add two numbers", FALSE, <<"int", "int">>, "int"),
       Tagged("counter_get", "counter_get",
              "Get current counter value (stateful)", TRUE, <<>>, "int"),
       Tagged("counter_increment", "counter_increment",
              "Increment a counter (stateful)", TRUE, <<>>, "int"),
       Tagged("factorial", "factorial",
              "Calculate factorial of a number", FALSE, <<"int">>, "int"),
       Tagged("fibonacci", "fibonacci",
              "Calculate the nth Fibonacci number", FALSE, <<"int">>, "int"),
       Tagged("is_prime", "is_prime",
              "Check if a number is prime", FALSE, <<"int">>, "bool"),
       Tagged("multiply", "multiply",
              "Multiply two numbers", FALSE, <<"int", "int">>, "int") >>

\* A second module: it imports counter_increment from impl.py (an imported
\* tagged callable is in dir(module) too) and defines reset_and_fail, tagged
\* stateful with the defaults of load_module for what the tag leaves out.
FailingModule ==
    << Tagged("counter_increment", "counter_increment",
              "Increment a counter (stateful)", TRUE, <<>>, "int"),
       Tagged("reset_and_fail", "reset_and_fail", "", TRUE, <<>>, "Any") >>

\* The module paths load_module is given; "missing.py" does not exist.
ModulePaths == {"impl.py", "failing.py", "missing.py"}

PathExists(path) == path \in {"impl.py", "failing.py"}

ModuleAt(path) == IF path = "impl.py" THEN ExampleModule ELSE FailingModule

\* A register_function that keeps the entry a name already has; the code
\* is not this one.
register_function_KeepsFirst(reg, name, func, meta) ==
    IF DictHas(reg.methods, name) THEN reg
    ELSE [methods |-> DictSet(reg.methods, name, func),
          method_metadata |-> DictSet(reg.method_metadata, name, meta)]

\* register_function(name, func, ...) on the two registry dicts
\* reg = [methods, method_metadata].
register_function(reg, name, func, meta) ==
    [methods |-> DictSet(reg.methods, name, func),
     method_metadata |-> DictSet(reg.method_metadata, name, meta)]

RECURSIVE RegisterAll(_, _, _)
\* The loop of load_module over the tagged callables of a module.
RegisterAll(reg, tagged, i) ==
    IF i > Len(tagged) THEN reg
    ELSE RegisterAll(register_function(reg, tagged[i].name, tagged[i].func,
                                       tagged[i].meta),
                     tagged, i + 1)

(***************************************************************************)
(* Requests and responses.  last records the request handled last and the  *)
(* response returned: success, context_id (CreateContext), result, state   *)
(* (InspectState), error and metadata (whether ExecutionMetadata is set).  *)
(* called and raised note whether the callable's body ran and whether the  *)
(* call raised.  A string field left unset is "", a payload <<>>.  prefix   *)
(* and listed are the request and the response of ListMethods.  uncaught   *)
(* marks a handler that ended with an exception instead of a response.     *)
(***************************************************************************)
Request(op, method_name, payload, context_id) ==
    [op |-> op, method_name |-> method_name, payload |-> payload,
     context_id |-> context_id, prefix |-> ""]

Response(req, success, new_id, result, state, error, metadata, called, raised) ==
    [op |-> req.op, method_name |-> req.method_name, payload |-> req.payload,
     context_id |-> req.context_id, success |-> success, new_id |-> new_id,
     result |-> result, state |-> state, error |-> error,
     metadata |-> metadata, called |-> called, raised |-> raised,
     prefix |-> req.prefix, listed |-> <<>>, uncaught |-> FALSE]

\* A failure response: success=False and an error, nothing else set.
Failure(req, error, called, raised) ==
    Response(req, FALSE, "", <<>>, <<>>, error, FALSE, called, raised)

NoRequest == Failure(Request("none", "", <<>>, ""), "", FALSE, FALSE)

(***************************************************************************)
(* The inputs the requests are drawn from.                                 *)
(***************************************************************************)
\* ""
NoPayload == <<>>
\* "{"
Truncated == <<P("{")>>
\* "{}"
EmptyObject == <<P("{"), P("}")>>
\* {"context": null, "a": 1, "b": 2}
AddArgsWithContext ==
    <<P("{"), Str("context"), P(":"), Null, P(","), Str("a"), P(":"), Num(1),
      P(","), Str("b"), P(":"), Num(2), P("}")>>
\* {"a": 1, "b": 2}
AddArgs ==
    <<P("{"), Str("a"), P(":"), Num(1), P(","), Str("b"), P(":"), Num(2), P("}")>>
\* [1]
ListPayload == <<P("["), Num(1), P("]")>>
\* {"counter": 1}
CounterSeed == <<P("{"), Str("counter"), P(":"), Num(1), P("}")>>

\* request.arguments of InvokeMethod
ArgPayloads == {NoPayload, Truncated, AddArgs, AddArgsWithContext, ListPayload}

\* request.initial_state of CreateContext
SeedPayloads == {NoPayload, Truncated, CounterSeed, ListPayload}

\* request.prefix of ListMethods
Prefixes == {"", "counter", "add"}

\* request.method_name of InvokeMethod
MethodNames == {"add", "counter_increment", "reset_and_fail", "no_such_method"}

\* The counter a session holds, 0 when its state has none.
CounterOf(obj) ==
    IF obj.state.t = "obj" /\ IsNumeric(DictGet(obj.state.items, "counter", Num(0)))
    THEN IntOf(DictGet(obj.state.items, "counter", Num(0)))
    ELSE 0

RECURSIVE SumCounters(_, _)
SumCounters(hp, refs) ==
    IF refs = {} THEN 0
    ELSE LET ref == CHOOSE r \in refs : TRUE IN
         CounterOf(hp[ref]) + SumCounters(hp, refs \ {ref})

\* The counters of the live sessions add up to at most MaxNum.
Bounded(hp) == SumCounters(hp, DOMAIN hp) <= MaxNum

\* The objects still referenced once cx is the contexts dict: an
\* ExecutionContext is referenced from self.contexts only.
Collect(hp, cx) ==
    [ref \in {cx[id] : id \in DOMAIN cx} |-> hp[ref]]

\* The same with the handlers on the workers (wk) counted in: exec_context
\* keeps the object while the handler runs.
CollectHeld(hp, cx, wk) ==
    [ref \in DOMAIN Collect(hp, cx)
              \cup {wk[w].ref : w \in {v \in Workers : wk[v].ref # ""}}
        |-> hp[ref]]

(***************************************************************************)
(* The handlers, as the response returned and the state left behind.       *)
(***************************************************************************)
\* An id generator that returns one id again and again; uuid4 is not this
\* one.
uuid4_Repeats == "ctx-1"

\* str(uuid.uuid4()): an id never returned before.  The ids are opaque and
\* the handlers treat them alike, so the model hands them out in order.
uuid4 == "ctx-" \o ToString(Cardinality(issued) + 1)

\* CreateContext(request) with context_id the uuid drawn.
CreateContextResult(req, context_id) ==
    [resp |-> Response(req, TRUE, context_id, <<>>, <<>>, "", FALSE, FALSE, FALSE),
     contexts |-> [id \in DOMAIN contexts \cup {context_id} |->
                      IF id = context_id THEN context_id ELSE contexts[id]],
     heap |-> [ref \in DOMAIN heap \cup {context_id} |->
                  IF ref = context_id
                  THEN ExecutionContextInit(context_id, req.payload)
                  ELSE heap[ref]]]

\* A calling convention that passes the session whenever one was resolved;
\* the code is not this one.
Execute_SessionWheneverResolved(func, is_stateful, hasContext, ref, args, hp) ==
    IF hasContext
    THEN CallStateful(func, ref, args, hp)
    ELSE CallStateless(func, args, hp)

\* The "Execute function" step of InvokeMethod: the calling convention.
Execute(func, is_stateful, hasContext, ref, args, hp) ==
    IF hasContext /\ is_stateful
    THEN CallStateful(func, ref, args, hp)
    ELSE CallStateless(func, args, hp)

\* Parsing without the default for empty arguments; the code is not this
\* one.
ParseArguments_NoEmptyDefault(arguments) == json_loads(arguments)

\* request.arguments parsed: json.loads(arguments) if arguments else {}
ParseArguments(arguments) ==
    IF arguments # <<>> THEN json_loads(arguments)
    ELSE [ok |-> TRUE, val |-> Obj(<<>>)]

\* The early returns with the arguments parsed before the method lookup;
\* the code is not this one.
FirstFailure_ArgumentsFirst(req) ==
    IF ~ParseArguments(req.payload).ok THEN "InvalidArguments"
    ELSE IF ~DictHas(methods, req.method_name) THEN "MethodNotFound"
    ELSE IF req.context_id # "" /\ req.context_id \notin DOMAIN contexts
    THEN "ContextNotFound"
    ELSE "none"

\* The early returns with the session looked up before the arguments are
\* parsed; the code is not this one.
FirstFailure_SessionFirst(req) ==
    IF ~DictHas(methods, req.method_name) THEN "MethodNotFound"
    ELSE IF req.context_id # "" /\ req.context_id \notin DOMAIN contexts
    THEN "ContextNotFound"
    ELSE IF ~ParseArguments(req.payload).ok THEN "InvalidArguments"
    ELSE "none"

\* The early returns of InvokeMethod, in the order the code takes them:
\* which check fails first, "none" when the call goes ahead.
FirstFailure(req) ==
    IF ~DictHas(methods, req.method_name) THEN "MethodNotFound"
    ELSE IF ~ParseArguments(req.payload).ok THEN "InvalidArguments"
    ELSE IF req.context_id # "" /\ req.context_id \notin DOMAIN contexts
    THEN "ContextNotFound"
    ELSE "none"

\* The error texts of the three early returns.  The text json.loads puts
\* after "Invalid JSON arguments: " names what it expected and where; the
\* model keeps one text for every rejected input.
MethodNotFound(method_name) == "Method not found: " \o method_name
InvalidArguments == "Invalid JSON arguments: Expecting value"
ContextNotFound(context_id) == "Context not found: " \o context_id

\* A response that replaces the exception's text by a fixed one; the code
\* is not this one.
Respond_HidesMessage(req, c) ==
    IF c.raised
    THEN Failure(req, "Internal error", c.called, TRUE)
    ELSE Response(req, TRUE, "", json_dumps(c.value), <<>>, "", TRUE, c.called,
                  FALSE)

\* The response once the call c has ended: the serialized result with the
\* execution metadata, or (except Exception) success=False with str(e).
Respond(req, c) ==
    IF c.raised
    THEN Failure(req, c.message, c.called, TRUE)
    ELSE Response(req, TRUE, "", json_dumps(c.value), <<>>, "", TRUE, c.called,
                  FALSE)

\* InvokeMethod(request): [resp, heap]
InvokeMethodResult(req) ==
    LET failure == FirstFailure(req) IN
    IF failure = "MethodNotFound"
    THEN [resp |-> Failure(req, MethodNotFound(req.method_name), FALSE, FALSE),
          heap |-> heap]
    ELSE IF failure = "InvalidArguments"
    THEN [resp |-> Failure(req, InvalidArguments, FALSE, FALSE), heap |-> heap]
    ELSE IF failure = "ContextNotFound"
    THEN [resp |-> Failure(req, ContextNotFound(req.context_id), FALSE, FALSE),
          heap |-> heap]
    ELSE
    LET func == DictGet(methods, req.method_name, "")
        args == ParseArguments(req.payload)
        hasContext == req.context_id # ""
        ref == IF hasContext THEN contexts[req.context_id] ELSE ""
        meta == DictGet(method_metadata, req.method_name,
                        Metadata("", FALSE, <<>>, ""))
        c == Execute(func, meta.is_stateful, hasContext, ref, args.val, heap)
    IN [resp |-> Respond(req, c), heap |-> c.heap]

\* InspectState(request)
InspectStateResult(req) ==
    IF req.context_id \notin DOMAIN contexts
    THEN Failure(req, ContextNotFound(req.context_id), FALSE, FALSE)
    ELSE Response(req, TRUE, "", <<>>, get_state(heap[contexts[req.context_id]]),
                  "", FALSE, FALSE, FALSE)

\* A DestroyContext that answers success and keeps the session; the code
\* is not this one.
DestroyContextResult_KeepsSession(req) ==
    IF req.context_id \in DOMAIN contexts
    THEN [resp |-> Response(req, TRUE, "", <<>>, <<>>, "", FALSE, FALSE, FALSE),
          contexts |-> contexts]
    ELSE [resp |-> Failure(req, ContextNotFound(req.context_id), FALSE, FALSE),
          contexts |-> contexts]

\* DestroyContext(request): [resp, contexts]
DestroyContextResult(req) ==
    IF req.context_id \in DOMAIN contexts
    THEN [resp |-> Response(req, TRUE, "", <<>>, <<>>, "", FALSE, FALSE, FALSE),
          contexts |-> [id \in DOMAIN contexts \ {req.context_id} |-> contexts[id]]]
    ELSE [resp |-> Failure(req, ContextNotFound(req.context_id), FALSE, FALSE),
          contexts |-> contexts]

\* str.startswith
startswith(name, prefix) ==
    Len(prefix) <= Len(name) /\ SubSeq(name, 1, Len(prefix)) = prefix

\* MethodInfo(name, description, is_stateful, parameter_types, return_type)
MethodInfo(name, metadata) ==
    [name |-> name, description |-> metadata.description,
     is_stateful |-> metadata.is_stateful,
     parameter_types |-> metadata.parameter_types,
     return_type |-> metadata.return_type]

RECURSIVE ListLoop_NoFilter(_, _, _)
\* A loop that lists every method whatever the prefix; the code is not this
\* one.
ListLoop_NoFilter(prefix, i, listed) ==
    IF i > Len(method_metadata) THEN listed
    ELSE ListLoop_NoFilter(prefix, i + 1,
                           Append(listed, MethodInfo(method_metadata[i].key,
                                                     method_metadata[i].val)))

RECURSIVE ListLoop(_, _, _)
\* The loop of ListMethods over self.method_metadata.items(), from item i
\* on, with the MethodInfo records appended so far.
ListLoop(prefix, i, listed) ==
    IF i > Len(method_metadata) THEN listed
    ELSE IF prefix # "" /\ ~startswith(method_metadata[i].key, prefix)
    THEN ListLoop(prefix, i + 1, listed)
    ELSE ListLoop(prefix, i + 1,
                  Append(listed, MethodInfo(method_metadata[i].key,
                                            method_metadata[i].val)))

\* The request of ListMethods.
ListRequest(prefix) ==
    [Request("ListMethods", "", <<>>, "") EXCEPT !.prefix = prefix]

\* ListMethods(request): the response has the methods only (no success, no
\* error field); success is set here for the record's sake.
ListMethodsResult(req) ==
    [Response(req, TRUE, "", <<>>, <<>>, "", FALSE, FALSE, FALSE)
        EXCEPT !.listed = ListLoop(req.prefix, 1, <<>>)]

(***************************************************************************)
(* What a response of InvokeMethod says about the call, for the history    *)
(* variables and the properties below.                                     *)
(***************************************************************************)
\* The callable registered under the response's method name.
RanCallable(resp) == DictGet(methods, resp.method_name, "")

\* Whether the method's metadata marks it is_stateful.
IsStateful(method_name) ==
    DictGet(method_metadata, method_name, Metadata("", FALSE, <<>>, "")).is_stateful

\* The callable's body ran with the session as its context.
RanOnSession(resp) ==
    /\ resp.op = "InvokeMethod"
    /\ resp.called
    /\ resp.context_id # ""
    /\ IsStateful(resp.method_name)

(***************************************************************************)
(* The actions.                                                            *)
(***************************************************************************)
\* TranspileTestServiceImpl.__init__
Init ==
    /\ methods = <<>>
    /\ method_metadata = <<>>
    /\ contexts = <<>>
    /\ heap = <<>>
    /\ issued = {}
    /\ serving = FALSE
    /\ last = NoRequest
    /\ destroyed = {}
    /\ calls = <<>>
    /\ registered = <<>>
    /\ workers = [w \in Workers |-> Idle]

\* load_module(module_path): serve() calls it once, before the server
\* starts and on a registry still empty.
LoadModule(path) ==
    /\ ~serving
    /\ methods = <<>>
    /\ LET reg == IF PathExists(path)
                  THEN RegisterAll([methods |-> methods,
                                    method_metadata |-> method_metadata],
                                   ModuleAt(path), 1)
                  ELSE [methods |-> methods, method_metadata |-> method_metadata]
       IN /\ methods' = reg.methods
          /\ method_metadata' = reg.method_metadata
    /\ registered' = IF PathExists(path) THEN registered \o ModuleAt(path)
                     ELSE registered
    /\ UNCHANGED <<contexts, heap, issued, serving, last, destroyed, calls,
                   workers>>

\* register_function(name, func, is_stateful=...), the other parameters at
\* their defaults: description "", parameter_types None (stored as []),
\* return_type "Any".
RegisterFunction(name, func, is_stateful) ==
    /\ Len(registered) < MaxRegs
    /\ \E reg \in {register_function([methods |-> methods,
                                       method_metadata |-> method_metadata],
                                      name, func,
                                      Metadata("", is_stateful, <<>>, "Any"))} :
          /\ methods' = reg.methods
          /\ method_metadata' = reg.method_metadata
    /\ registered' = Append(registered,
                            Tagged(name, func, "", is_stateful, <<>>, "Any"))
    /\ UNCHANGED <<contexts, heap, issued, serving, last, destroyed, calls,
                   workers>>

\* serve(): server.start(); from here on requests are handled.
Serve ==
    /\ ~serving
    /\ serving' = TRUE
    /\ UNCHANGED <<methods, method_metadata, contexts, heap, issued, last,
                   destroyed, calls, registered, workers>>

CreateContext(initial_state) ==
    /\ serving
    /\ issued # Ids
    /\ \E context_id \in {uuid4} :
       \E r \in {CreateContextResult(
                    Request("CreateContext", "", initial_state, ""), context_id)} :
          /\ Bounded(r.heap)
          /\ contexts' = r.contexts
          /\ heap' = r.heap
          /\ issued' = issued \cup {context_id}
          /\ last' = r.resp
          /\ calls' = [id \in DOMAIN calls \cup {context_id} |->
                          IF id # context_id THEN calls[id]
                          ELSE IF r.heap[context_id].state = Obj(<<>>)
                               THEN 0 ELSE -1]
    /\ UNCHANGED <<methods, method_metadata, serving, destroyed, registered,
                   workers>>

InvokeMethod(method_name, arguments, context_id) ==
    /\ serving
    /\ \E r \in {InvokeMethodResult(
                    Request("InvokeMethod", method_name, arguments, context_id))} :
          /\ Bounded(r.heap)
          /\ heap' = r.heap
          /\ last' = r.resp
          /\ calls' = [id \in DOMAIN calls |->
                          IF id = context_id /\ RanOnSession(r.resp)
                          THEN IF RanCallable(r.resp) = "counter_increment"
                                  /\ calls[id] >= 0
                               THEN calls[id] + 1
                               ELSE IF RanCallable(r.resp) = "counter_get"
                                    THEN calls[id] ELSE -1
                          ELSE calls[id]]
    /\ UNCHANGED <<methods, method_metadata, contexts, issued, serving,
                   destroyed, registered, workers>>

InspectState(context_id) ==
    /\ serving
    /\ last' = InspectStateResult(Request("InspectState", "", <<>>, context_id))
    /\ UNCHANGED <<methods, method_metadata, contexts, heap, issued, serving,
                   destroyed, calls, registered, workers>>

\* ListMethods(request)
ListMethods(prefix) ==
    /\ serving
    /\ last' = ListMethodsResult(ListRequest(prefix))
    /\ UNCHANGED <<methods, method_metadata, contexts, heap, issued, serving,
                   destroyed, calls, registered, workers>>

DestroyContext(context_id) ==
    /\ serving
    /\ \E r \in {DestroyContextResult(
                    Request("DestroyContext", "", <<>>, context_id))} :
          /\ contexts' = r.contexts
          /\ heap' = CollectHeld(heap, r.contexts, workers)
          /\ last' = r.resp
          /\ destroyed' = IF r.resp.success THEN destroyed \cup {context_id}
                          ELSE destroyed
          /\ calls' = [id \in DOMAIN r.contexts |-> calls[id]]
    /\ UNCHANGED <<methods, method_metadata, issued, serving, registered,
                   workers>>

Next ==
    \/ \E path \in ModulePaths : LoadModule(path)
    \/ Serve
    \/ \E initial_state \in SeedPayloads : CreateContext(initial_state)
    \/ \E method_name \in MethodNames, arguments \in ArgPayloads,
          context_id \in RequestIds :
          InvokeMethod(method_name, arguments, context_id)
    \/ \E context_id \in RequestIds : InspectState(context_id)
    \/ \E context_id \in RequestIds : DestroyContext(context_id)
    \/ \E prefix \in Prefixes : ListMethods(prefix)

Spec == Init /\ [][Next]_vars

(***************************************************************************)
(* The registry filled by register_function calls instead of load_module:  *)
(* names registered again with another callable or another is_stateful     *)
(* flag, then listed and invoked.                                          *)
(***************************************************************************)
\* The register_function calls made: [name, func, is_stateful].
Registrations ==
    { [name |-> "counter_increment", func |-> "counter_increment",
       is_stateful |-> TRUE],
      [name |-> "counter_increment", func |-> "counter_get",
       is_stateful |-> TRUE],
      [name |-> "counter_increment", func |-> "counter_increment",
       is_stateful |-> FALSE],
      [name |-> "add", func |-> "add", is_stateful |-> FALSE] }

NextRegistry ==
    \/ \E reg \in Registrations :
          RegisterFunction(reg.name, reg.func, reg.is_stateful)
    \/ Serve
    \/ CreateContext(NoPayload)
    \/ \E method_name \in {"counter_increment", "add"},
          arguments \in {NoPayload, AddArgsWithContext},
          context_id \in RequestIds :
          InvokeMethod(method_name, arguments, context_id)
    \/ \E prefix \in Prefixes : ListMethods(prefix)

SpecRegistry == Init /\ [][NextRegistry]_vars

(***************************************************************************)
(* The handlers on the workers of the thread pool.  A handler runs on one  *)
(* worker; between two of its steps the other workers may run.  The steps  *)
(* are cut where a handler reads or writes self.contexts or a session's    *)
(* state: after the membership test, before self.contexts[id] is read or   *)
(* deleted, and in counter_increment between the read of the counter and   *)
(* update_state.  CreateContext touches self.contexts in its one           *)
(* assignment and stays a single step.                                     *)
(***************************************************************************)
\* The request a busy worker is handling.
RequestOf(wk) == Request(wk.op, wk.method_name, NoPayload, wk.context_id)

\* The worker that takes the next request: the pool's workers are alike,
\* the model numbers them and uses the first one free.
FreeWorker(w) ==
    /\ workers[w] = Idle
    /\ \A v \in Workers : v < w => workers[v] # Idle

\* KeyError(key): str(e) is the repr of the key.
KeyError(key) == "'" \o key \o "'"

\* The response of a handler that ended with an exception nobody caught:
\* the caller gets no response message of the service.
Uncaught(req, message) ==
    [Failure(req, message, FALSE, TRUE) EXCEPT !.uncaught = TRUE]

\* serve(port, module_path): load_module(module_path), then server.start().
ServeModule(path) ==
    /\ ~serving
    /\ methods = <<>>
    /\ \E reg \in {RegisterAll([methods |-> methods,
                                 method_metadata |-> method_metadata],
                                ModuleAt(path), 1)} :
          /\ methods' = reg.methods
          /\ method_metadata' = reg.method_metadata
    /\ registered' = registered \o ModuleAt(path)
    /\ serving' = TRUE
    /\ UNCHANGED <<contexts, heap, issued, last, destroyed, calls, workers>>

RECURSIVE Started(_, _)
\* How many counter_increment invocations have started on the sessions ids.
Started(cl, ids) ==
    IF ids = {} THEN 0
    ELSE LET id == CHOOSE i \in ids : TRUE IN
         cl[id] + Started(cl, ids \ {id})

\* InvokeMethod of counter_increment up to "Get context if needed": the
\* method lookup, the arguments ("") and the test context_id in
\* self.contexts.
BeginInvoke(w, context_id) ==
    /\ serving
    /\ FreeWorker(w)
    /\ Started(calls, DOMAIN calls) < MaxNum
    /\ \E req \in {Request("InvokeMethod", "counter_increment", NoPayload,
                             context_id)} :
          IF FirstFailure(req) # "none"
          THEN /\ last' = InvokeMethodResult(req).resp
               /\ UNCHANGED <<workers, calls>>
          ELSE /\ workers' = [workers EXCEPT ![w] =
                                 [Idle EXCEPT !.pc = "resolved",
                                              !.op = req.op,
                                              !.method_name = req.method_name,
                                              !.context_id = context_id]]
               /\ calls' = [id \in DOMAIN calls |->
                               IF id = context_id THEN calls[id] + 1
                               ELSE calls[id]]
               /\ UNCHANGED last
    /\ UNCHANGED <<methods, method_metadata, contexts, heap, issued, serving,
                   destroyed, registered>>

\* exec_context = self.contexts[request.context_id]; a KeyError is caught
\* by the except Exception of InvokeMethod.
FetchSession(w) ==
    /\ workers[w].pc = "resolved"
    /\ IF workers[w].context_id \in DOMAIN contexts
       THEN /\ workers' = [workers EXCEPT
                              ![w].pc = "fetched",
                              ![w].ref = contexts[workers[w].context_id]]
            /\ UNCHANGED last
       ELSE /\ workers' = [workers EXCEPT ![w] = Idle]
            /\ last' = Failure(RequestOf(workers[w]),
                               KeyError(workers[w].context_id), FALSE, TRUE)
    /\ UNCHANGED <<methods, method_metadata, contexts, heap, issued, serving,
                   destroyed, calls, registered>>

\* func(exec_context) as far as
\* current = context.state.get("counter", 0).
ReadCounter(w) ==
    /\ workers[w].pc = "fetched"
    /\ workers' = [workers EXCEPT
                      ![w].pc = "read",
                      ![w].current = CounterOf(heap[workers[w].ref])]
    /\ UNCHANGED <<methods, method_metadata, contexts, heap, issued, serving,
                   last, destroyed, calls, registered>>

\* An increment by two; the code is not this one.
new_value_Inflated(current) == current + 2

\* new_value = current + 1
new_value(current) == current + 1

\* A write that also puts the session back into self.contexts; the code is
\* not this one.
WriteCounter_PutsSessionBack(w) ==
    /\ workers[w].pc = "read"
    /\ \E u \in {update_state(heap[workers[w].ref], "counter",
                               Num(new_value(workers[w].current)))} :
          /\ workers' = [workers EXCEPT ![w] = Idle]
          /\ contexts' = [id \in DOMAIN contexts \cup {workers[w].context_id} |->
                             IF id = workers[w].context_id THEN workers[w].ref
                             ELSE contexts[id]]
          /\ heap' = CollectHeld([heap EXCEPT ![workers[w].ref] = u.obj],
                                 contexts', workers')
          /\ last' = Respond(RequestOf(workers[w]),
                             Called(Outcome(Returned(Num(new_value(
                                        workers[w].current))), heap')))
    /\ UNCHANGED <<methods, method_metadata, issued, serving, destroyed, calls,
                   registered>>

\* context.update_state("counter", new_value); return new_value, and the
\* response of InvokeMethod.
WriteCounter(w) ==
    /\ workers[w].pc = "read"
    /\ \E u \in {update_state(heap[workers[w].ref], "counter",
                               Num(new_value(workers[w].current)))} :
          /\ workers' = [workers EXCEPT ![w] = Idle]
          /\ heap' = CollectHeld([heap EXCEPT ![workers[w].ref] = u.obj],
                                 contexts, workers')
          /\ last' = Respond(RequestOf(workers[w]),
                             Called(Outcome(Returned(Num(new_value(
                                        workers[w].current))), heap')))
    /\ UNCHANGED <<methods, method_metadata, contexts, issued, serving,
                   destroyed, calls, registered>>

\* InspectState up to the test context_id not in self.contexts.
BeginInspect(w, context_id) ==
    /\ serving
    /\ FreeWorker(w)
    /\ \E req \in {Request("InspectState", "", NoPayload, context_id)} :
          IF context_id \notin DOMAIN contexts
          THEN /\ last' = InspectStateResult(req)
               /\ UNCHANGED workers
          ELSE /\ workers' = [workers EXCEPT ![w] =
                                 [Idle EXCEPT !.pc = "inspect",
                                              !.op = req.op,
                                              !.context_id = context_id]]
               /\ UNCHANGED last
    /\ UNCHANGED <<methods, method_metadata, contexts, heap, issued, serving,
                   destroyed, calls, registered>>

\* exec_context = self.contexts[request.context_id] and the response with
\* get_state(); InspectState has no try, a KeyError leaves the handler.
FinishInspect(w) ==
    /\ workers[w].pc = "inspect"
    /\ workers' = [workers EXCEPT ![w] = Idle]
    /\ last' = IF workers[w].context_id \in DOMAIN contexts
               THEN InspectStateResult(RequestOf(workers[w]))
               ELSE Uncaught(RequestOf(workers[w]),
                             KeyError(workers[w].context_id))
    /\ UNCHANGED <<methods, method_metadata, contexts, heap, issued, serving,
                   destroyed, calls, registered>>

\* DestroyContext up to the test context_id in self.contexts.
BeginDestroy(w, context_id) ==
    /\ serving
    /\ FreeWorker(w)
    /\ \E req \in {Request("DestroyContext", "", NoPayload, context_id)} :
          IF context_id \notin DOMAIN contexts
          THEN /\ last' = DestroyContextResult(req).resp
               /\ UNCHANGED workers
          ELSE /\ workers' = [workers EXCEPT ![w] =
                                 [Idle EXCEPT !.pc = "destroy",
                                              !.op = req.op,
                                              !.context_id = context_id]]
               /\ UNCHANGED last
    /\ UNCHANGED <<methods, method_metadata, contexts, heap, issued, serving,
                   destroyed, calls, registered>>

\* del self.contexts[request.context_id] and the response; DestroyContext
\* has no try, a KeyError leaves the handler.
FinishDestroy(w) ==
    /\ workers[w].pc = "destroy"
    /\ workers' = [workers EXCEPT ![w] = Idle]
    /\ IF workers[w].context_id \in DOMAIN contexts
       THEN \E r \in {DestroyContextResult(RequestOf(workers[w]))} :
               /\ contexts' = r.contexts
               /\ heap' = CollectHeld(heap, r.contexts, workers')
               /\ last' = r.resp
               /\ destroyed' = destroyed \cup {workers[w].context_id}
               /\ calls' = [id \in DOMAIN r.contexts |-> calls[id]]
       ELSE /\ last' = Uncaught(RequestOf(workers[w]),
                                KeyError(workers[w].context_id))
            /\ UNCHANGED <<contexts, heap, destroyed, calls>>
    /\ UNCHANGED <<methods, method_metadata, issued, serving, registered>>

NextConcurrent ==
    \/ ServeModule("impl.py")
    \/ CreateContext(NoPayload)
    \/ \E w \in Workers, context_id \in issued : BeginInvoke(w, context_id)
    \/ \E w \in Workers : FetchSession(w)
    \/ \E w \in Workers : ReadCounter(w)
    \/ \E w \in Workers : WriteCounter(w)
    \/ \E w \in Workers, context_id \in issued : BeginInspect(w, context_id)
    \/ \E w \in Workers : FinishInspect(w)
    \/ \E w \in Workers, context_id \in issued : BeginDestroy(w, context_id)
    \/ \E w \in Workers : FinishDestroy(w)

SpecConcurrent == Init /\ [][NextConcurrent]_vars

\* InvokeMethod in steps next to DestroyContext and InspectState each in one
\* step: an invocation in flight while its session is destroyed.
NextInFlight ==
    \/ ServeModule("impl.py")
    \/ CreateContext(NoPayload)
    \/ \E w \in Workers, context_id \in issued : BeginInvoke(w, context_id)
    \/ \E w \in Workers : FetchSession(w)
    \/ \E w \in Workers : ReadCounter(w)
    \/ \E w \in Workers : WriteCounter(w)
    \/ \E context_id \in issued : InspectState(context_id)
    \/ \E context_id \in issued : DestroyContext(context_id)

SpecInFlight == Init /\ [][NextInFlight]_vars

\* counter_increment invocations in steps, on sessions that stay.
NextCounter ==
    \/ ServeModule("impl.py")
    \/ CreateContext(NoPayload)
    \/ \E w \in Workers, context_id \in issued : BeginInvoke(w, context_id)
    \/ \E w \in Workers : FetchSession(w)
    \/ \E w \in Workers : ReadCounter(w)
    \/ \E w \in Workers : WriteCounter(w)

SpecCounter == Init /\ [][NextCounter]_vars

(***************************************************************************)
(* Properties.                                                             *)
(***************************************************************************)
Registered(method_name) == DictHas(methods, method_name)

\* Whether the arguments payload deserializes ("" counts as {}).
ArgsOk(payload) == payload = <<>> \/ json_loads(payload).ok

\* The payload is "" or a JSON text of the empty mapping.
NoArgs(payload) == payload = <<>> \/ json_loads(payload) = [ok |-> TRUE, val |-> Obj(<<>>)]

\* last is the response to an InvokeMethod of a method registered stateful
\* whose callable is func.
InvokedStateful(resp, func) ==
    /\ resp.op = "InvokeMethod"
    /\ Registered(resp.method_name)
    /\ RanCallable(resp) = func
    /\ IsStateful(resp.method_name)

(* C1: once DestroyContext(id) has answered success, every later request   *)
(* that references id (InspectState, DestroyContext, InvokeMethod of a     *)
(* registered method with well-formed arguments) is answered success=False *)
(* with "Context not found: id".                                           *)
C1_DestroyedIdStaysInvalid ==
    [][\A id \in destroyed :
          ( /\ last'.context_id = id
            /\ \/ last'.op \in {"InspectState", "DestroyContext"}
               \/ /\ last'.op = "InvokeMethod"
                  /\ Registered(last'.method_name)
                  /\ ArgsOk(last'.payload) )
          => (~last'.success /\ last'.error = "Context not found: " \o id)]_vars

\* An InvokeMethod of a registered method, with well-formed arguments, on a
\* destroyed id was answered "Context not found".
C1_Witness ==
    /\ last.op = "InvokeMethod"
    /\ last.context_id \in destroyed
    /\ Registered(last.method_name)
    /\ ArgsOk(last.payload)
    /\ ~last.success
    /\ last.error = "Context not found: " \o last.context_id

(* C2: on a session created with the empty state on which only             *)
(* counter_increment (and the read-only counter_get) has run, the k-th     *)
(* InvokeMethod of counter_increment without arguments succeeds and        *)
(* returns k, whatever was invoked on other sessions: calls counts the     *)
(* session's own calls only.                                               *)
C2_CounterCountsOwnCalls ==
    ( /\ InvokedStateful(last, "counter_increment")
      /\ NoArgs(last.payload)
      /\ last.context_id \in DOMAIN calls
      /\ calls[last.context_id] >= 0 )
    => ( /\ last.success
         /\ calls[last.context_id] >= 1
         /\ last.result = <<Num(calls[last.context_id])>> )

\* Two sessions side by side: the first call on one returned 1 although
\* the other had already had its first call.
C2_Witness ==
    /\ InvokedStateful(last, "counter_increment")
    /\ last.success
    /\ last.context_id \in DOMAIN calls
    /\ calls[last.context_id] = 1
    /\ last.result = <<Num(1)>>
    /\ \E other \in DOMAIN calls :
          /\ other # last.context_id
          /\ calls[other] = 1
          /\ CounterOf(heap[contexts[other]]) = 1

(* C3: InvokeMethod of an unregistered method name answers success=False   *)
(* with "Method not found", whatever the arguments and the context_id; no  *)
(* callable runs and the sessions and their state stay as they were.       *)
C3_UnregisteredMethodNotFound ==
    [][(last'.op = "InvokeMethod" /\ ~Registered(last'.method_name))
       => ( /\ ~last'.success
            /\ last'.error = "Method not found: " \o last'.method_name
            /\ ~last'.called
            /\ ~last'.metadata
            /\ heap' = heap
            /\ contexts' = contexts )]_vars

\* An unregistered method invoked with malformed arguments and an unknown
\* context_id.
C3_Witness ==
    /\ last.op = "InvokeMethod"
    /\ ~Registered(last.method_name)
    /\ ~ArgsOk(last.payload)
    /\ last.context_id # ""
    /\ last.context_id \notin DOMAIN contexts
    /\ last.error = "Method not found: " \o last.method_name

(* C4: InvokeMethod reports the earliest failing check in the order method *)
(* resolution, argument deserialization, session resolution; "Context not  *)
(* found" is reported only for a registered method with well-formed        *)
(* arguments, and the callable runs only when all three checks pass.       *)
C4_FailureOrder ==
    last.op = "InvokeMethod" =>
        LET unknown == last.context_id # "" /\ last.context_id \notin DOMAIN contexts
        IN /\ ~Registered(last.method_name)
                => last.error = "Method not found: " \o last.method_name
           /\ (Registered(last.method_name) /\ ~ArgsOk(last.payload))
                => last.error = "Invalid JSON arguments: Expecting value"
           /\ (Registered(last.method_name) /\ ArgsOk(last.payload) /\ unknown)
                => last.error = "Context not found: " \o last.context_id
           /\ last.error = "Context not found: " \o last.context_id
                => (Registered(last.method_name) /\ ArgsOk(last.payload) /\ unknown)
           /\ (last.called \/ last.success)
                => (Registered(last.method_name) /\ ArgsOk(last.payload) /\ ~unknown)

\* A registered method invoked with malformed arguments and an unknown
\* context_id: the arguments are reported.
C4_Witness ==
    /\ last.op = "InvokeMethod"
    /\ Registered(last.method_name)
    /\ ~ArgsOk(last.payload)
    /\ last.context_id # ""
    /\ last.context_id \notin DOMAIN contexts
    /\ last.error = "Invalid JSON arguments: Expecting value"

(* C5: CreateContext answers success=True with the id of a new session,    *)
(* and an InspectState of that id right after it answers success=True with *)
(* the seeded state when initial_state is the JSON text of a mapping, and  *)
(* with {} when no initial_state was given.                                *)
C5_CreateThenInspect ==
    [][ /\ last'.op = "CreateContext"
            => ( /\ last'.success
                 /\ last'.new_id # ""
                 /\ last'.new_id \notin DOMAIN contexts
                 /\ last'.new_id \in DOMAIN contexts' )
        /\ ( /\ last.op = "CreateContext"
             /\ last'.op = "InspectState"
             /\ last'.context_id = last.new_id )
            => ( /\ last'.success
                 /\ last.payload = <<>> => last'.state = <<P("{"), P("}")>>
                 /\ (json_loads(last.payload).ok
                     /\ json_loads(last.payload).val.t = "obj")
                      => json_loads(last'.state) = json_loads(last.payload) )
      ]_vars

\* InspectState answered with the seed {"counter": 1} of a session that no
\* callable has touched.
C5_Witness ==
    /\ last.op = "InspectState"
    /\ last.success
    /\ last.state = CounterSeed
    /\ calls[last.context_id] = -1

(* C6: an initial_state that does not deserialize into a mapping, because  *)
(* it is not JSON or because it is the JSON text of another kind of value, *)
(* still creates the session, with success=True and the empty state {}.    *)
C6_BadSeedGivesEmptyState ==
    ( /\ last.op = "CreateContext"
      /\ last.payload # <<>>
      /\ ~(json_loads(last.payload).ok /\ json_loads(last.payload).val.t = "obj") )
    => ( /\ last.success
         /\ last.new_id \in DOMAIN contexts
         /\ heap[contexts[last.new_id]].state = Obj(<<>>) )

(* C7: InvokeMethod of a registered method with a malformed arguments      *)
(* payload answers success=False with "Invalid JSON arguments", runs no    *)
(* callable and leaves the sessions as they were; an empty arguments field *)
(* is no deserialization error and is answered as the payload {} is.       *)
C7_MalformedArguments ==
    [][(last'.op = "InvokeMethod" /\ Registered(last'.method_name))
       => /\ ~ArgsOk(last'.payload)
              => ( /\ ~last'.success
                   /\ last'.error = "Invalid JSON arguments: Expecting value"
                   /\ ~last'.called
                   /\ heap' = heap
                   /\ contexts' = contexts )
          /\ last'.payload = <<>>
              => \E r \in {InvokeMethodResult(
                              Request("InvokeMethod", last'.method_name,
                                      EmptyObject, last'.context_id))} :
                    /\ last'.error # "Invalid JSON arguments: Expecting value"
                    /\ last'.success = r.resp.success
                    /\ last'.result = r.resp.result
                    /\ last'.error = r.resp.error
                    /\ last'.called = r.resp.called
                    /\ heap' = r.heap]_vars

\* A stateful method invoked on a live session with the payload "{".
C7_Witness ==
    /\ last.op = "InvokeMethod"
    /\ Registered(last.method_name)
    /\ IsStateful(last.method_name)
    /\ last.context_id \in DOMAIN contexts
    /\ last.payload = Truncated
    /\ ~last.success
    /\ last.error = "Invalid JSON arguments: Expecting value"

\* The call InvokeMethod makes for the request of resp, in the state before.
CallOf(resp) ==
    Execute(RanCallable(resp), IsStateful(resp.method_name),
            resp.context_id # "",
            IF resp.context_id # "" THEN contexts[resp.context_id] ELSE "",
            ParseArguments(resp.payload).val, heap)

(* C8: when the call of the callable raises, InvokeMethod answers          *)
(* success=False with the exception's message as error and without result  *)
(* or metadata; the registry and the set of sessions are as before, the    *)
(* session state is as the callable left it and the server goes on         *)
(* serving, so that later requests are answered from the same state as if  *)
(* the call had returned.                                                  *)
C8_CallableFailure ==
    [][(last'.op = "InvokeMethod" /\ last'.raised)
       => ( /\ ~last'.success
            /\ last'.error = CallOf(last').message
            /\ last'.result = <<>>
            /\ ~last'.metadata
            /\ methods' = methods
            /\ method_metadata' = method_metadata
            /\ contexts' = contexts
            /\ heap' = CallOf(last').heap
            /\ serving' )]_vars

\* The body of a callable ran and raised with a message, which the
\* response carries.
C8_Witness ==
    /\ last.op = "InvokeMethod"
    /\ last.raised
    /\ last.called
    /\ ~last.success
    /\ last.error = "object has no attribute 'get'"

\* The counter in a serialized session state, null when it has none.
CounterIn(state) ==
    IF json_loads(state).ok /\ json_loads(state).val.t = "obj"
    THEN DictGet(json_loads(state).val.items, "counter", Null)
    ELSE Null

(* C9: what a stateful callable writes with update_state is in the session *)
(* at once and stays there.  After reset_and_fail has set counter to 0 and *)
(* raised (success=False, error ""), and after counter_increment has       *)
(* returned k, the very next InspectState of the session shows the counter *)
(* written and the very next counter_increment returns it plus one.        *)
C9_UpdatesCommitted ==
    [][( /\ last.op = "InvokeMethod"
         /\ last.called
         /\ last.context_id \in DOMAIN contexts
         /\ last'.context_id = last.context_id )
       => LET written ==
                  IF InvokedStateful(last, "reset_and_fail") /\ last.error = ""
                  THEN Num(0)
                  ELSE IF InvokedStateful(last, "counter_increment") /\ last.success
                  THEN json_loads(last.result).val
                  ELSE Null
          IN written # Null
             => /\ InvokedStateful(last, "reset_and_fail") => ~last.success
                /\ last'.op = "InspectState"
                    => (last'.success /\ CounterIn(last'.state) = written)
                /\ ( /\ InvokedStateful(last', "counter_increment")
                     /\ NoArgs(last'.payload) )
                    => ( /\ last'.success
                         /\ last'.result = <<Num(written.n + 1)>> )]_vars

\* InspectState shows the counter 0, which only reset_and_fail writes (and
\* it raises after writing).
C9_Witness ==
    /\ last.op = "InspectState"
    /\ last.success
    /\ CounterIn(last.state) = Num(0)

(* C10: every InvokeMethod response has a result exactly when success is   *)
(* true, a non-empty error exactly when success is false, and the          *)
(* execution metadata exactly when success is true.                        *)
C10_ResponseEnvelope ==
    last.op = "InvokeMethod"
    => ( /\ last.result # <<>> <=> last.success
         /\ last.error # "" <=> ~last.success
         /\ last.metadata <=> last.success )

\* The request of resp passes the three checks of InvokeMethod in the state
\* before: the method is registered, the arguments deserialize and the
\* context_id is unset or names a session.
PastChecks(resp) ==
    /\ resp.op = "InvokeMethod"
    /\ Registered(resp.method_name)
    /\ ArgsOk(resp.payload)
    /\ resp.context_id # "" => resp.context_id \in DOMAIN contexts

\* The response resp reports the call c: its exception, or its value.
Reports(resp, c) ==
    /\ resp.raised = c.raised
    /\ resp.called = c.called
    /\ resp.success = ~c.raised
    /\ c.raised => resp.error = c.message
    /\ ~c.raised => resp.result = json_dumps(c.value)

(* C11: an InvokeMethod that passes the checks calls the callable with the *)
(* session as first argument exactly when a context_id was given and the   *)
(* method is registered is_stateful; otherwise it calls it with the named  *)
(* arguments only, also for a stateful method without context_id, whose    *)
(* response is then whatever that call gives and no error of InvokeMethod. *)
C11_SessionPassedIffStateful ==
    [][PastChecks(last')
       => \E func \in {RanCallable(last')}, args \in {ParseArguments(last'.payload).val} :
             IF last'.context_id # "" /\ IsStateful(last'.method_name)
             THEN \E c \in {CallStateful(func, contexts[last'.context_id],
                                          args, heap)} :
                     Reports(last', c) /\ heap' = c.heap
             ELSE \E c \in {CallStateless(func, args, heap)} :
                     /\ Reports(last', c)
                     /\ heap' = heap
                     /\ last'.error \notin {ContextNotFound(last'.context_id),
                                             MethodNotFound(last'.method_name),
                                             InvalidArguments}]_vars

\* The stateless add invoked on a live session with context, a and b among
\* its named arguments returned 3: the session was not passed.
C11_Witness ==
    /\ last.op = "InvokeMethod"
    /\ RanCallable(last) = "add"
    /\ ~IsStateful(last.method_name)
    /\ last.context_id \in DOMAIN contexts
    /\ last.payload = AddArgsWithContext
    /\ last.success
    /\ last.result = <<Num(3)>>

\* The step is a handler answering a request op: every handler leaves the
\* registry alone and puts its response in last.
Answered(op) == registered' = registered /\ last'.op = op

RECURSIVE FirstRegistered(_, _, _)
\* The names of the registrations regs[i..], each once, in the order of its
\* first registration; seen are the names met before i.
FirstRegistered(regs, i, seen) ==
    IF i > Len(regs) THEN <<>>
    ELSE IF regs[i].name \in seen THEN FirstRegistered(regs, i + 1, seen)
    ELSE <<regs[i].name>> \o FirstRegistered(regs, i + 1, seen \cup {regs[i].name})

\* The most recent registration of name.
Latest(regs, name) ==
    regs[CHOOSE i \in 1..Len(regs) :
            /\ regs[i].name = name
            /\ \A j \in (i + 1)..Len(regs) : regs[j].name # name]

(* C12: ListMethods returns one record for every registered name that      *)
(* starts with the prefix, every one when the prefix is empty, and no       *)
(* other; the records are in the order in which the names were first        *)
(* registered.                                                              *)
C12_ListMethodsFilter ==
    [][Answered("ListMethods")
       => [i \in 1..Len(last'.listed) |-> last'.listed[i].name]
          = SelectSeq(FirstRegistered(registered, 1, {}),
                      LAMBDA name : last'.prefix = ""
                                    \/ ( /\ Len(last'.prefix) <= Len(name)
                                         /\ SubSeq(name, 1, Len(last'.prefix))
                                            = last'.prefix ))]_vars

\* counter_increment was registered before add; the prefix "add" lists add
\* alone.
C12_Witness ==
    /\ last.op = "ListMethods"
    /\ last.prefix = "add"
    /\ FirstRegistered(registered, 1, {}) = <<"counter_increment", "add">>
    /\ Len(last.listed) = 1
    /\ last.listed[1].name = "add"

(* C13: registering a name again replaces its entry: the registry holds    *)
(* one entry per name, with the callable and the metadata of the most       *)
(* recent registration; ListMethods shows that metadata in a single record  *)
(* and InvokeMethod calls that callable by that is_stateful flag.           *)
C13_LastWriterWins ==
    [][ /\ \A i \in 1..Len(registered') :
             \E reg \in {Latest(registered', registered'[i].name)} :
                /\ Cardinality({k \in 1..Len(methods') :
                                   methods'[k].key = reg.name}) = 1
                /\ Cardinality({k \in 1..Len(method_metadata') :
                                   method_metadata'[k].key = reg.name}) = 1
                /\ DictGet(methods', reg.name, "") = reg.func
                /\ DictGet(method_metadata', reg.name, reg.meta) = reg.meta
                /\ Answered("ListMethods") /\ last'.prefix = ""
                   => Cardinality({k \in 1..Len(last'.listed) :
                                      last'.listed[k]
                                      = MethodInfo(reg.name, reg.meta)}) = 1
        /\ Answered("InvokeMethod") /\ PastChecks(last')
           => \E reg \in {Latest(registered, last'.method_name)},
                 args \in {ParseArguments(last'.payload).val} :
                 IF last'.context_id # "" /\ reg.meta.is_stateful
                 THEN \E c \in {CallStateful(reg.func, contexts[last'.context_id],
                                              args, heap)} :
                         Reports(last', c) /\ heap' = c.heap
                 ELSE \E c \in {CallStateless(reg.func, args, heap)} :
                         Reports(last', c) /\ heap' = heap ]_vars

\* counter_increment was registered with the callable counter_increment and
\* then with counter_get: invoked on a fresh session it returned 0.
C13_Witness ==
    /\ Len(registered) = 2
    /\ registered[1].name = "counter_increment"
    /\ registered[1].func = "counter_increment"
    /\ registered[2].name = "counter_increment"
    /\ registered[2].func = "counter_get"
    /\ last.op = "InvokeMethod"
    /\ last.method_name = "counter_increment"
    /\ last.context_id \in DOMAIN contexts
    /\ last.success
    /\ last.result = <<Num(0)>>

(* C14: the state of a session changes only in an InvokeMethod of a method *)
(* registered is_stateful that carries the session's context_id; every     *)
(* other request, and every request on another session, leaves it as it    *)
(* was.                                                                    *)
C14_StatePrivate ==
    [][\A s \in DOMAIN contexts \cap DOMAIN contexts' :
          heap'[contexts'[s]].state # heap[contexts[s]].state
          => ( /\ last'.op = "InvokeMethod"
               /\ last'.context_id = s
               /\ IsStateful(last'.method_name)
               /\ last'.called )]_vars

\* counter_increment has just run on one session, the other still has the
\* empty state it was created with.
C14_Witness ==
    /\ InvokedStateful(last, "counter_increment")
    /\ last.success
    /\ last.context_id \in DOMAIN contexts
    /\ CounterOf(heap[contexts[last.context_id]]) = 1
    /\ \E other \in DOMAIN contexts :
          /\ other # last.context_id
          /\ heap[contexts[other]].state = Obj(<<>>)

C17_StatelessExampleSucceeds ==
    ( /\ last.op = "InvokeMethod"
      /\ last.method_name = "add"
      /\ Registered("add")
      /\ RanCallable(last) = "add"
      /\ ~IsStateful("add")
      /\ last.payload = AddArgs
      /\ last.context_id = "" \/ last.context_id \in DOMAIN contexts )
    => ( /\ last.success
         /\ last.result = <<Num(3)>> )

(* C15: with the handlers interleaved on the workers, every request ends   *)
(* with a response and none with an exception that leaves the handler; a   *)
(* request that fails because its session is gone answers success=False    *)
(* with "Context not found".                                               *)
C15_EveryRequestAnswered ==
    /\ ~last.uncaught
    /\ ( /\ last.op \in {"InvokeMethod", "InspectState", "DestroyContext"}
         /\ ~last.success )
       => last.error = ContextNotFound(last.context_id)

\* Worker w ends an invocation on a session destroyed in the meantime.
WritesToDestroyed(w) ==
    /\ workers[w].pc = "read"
    /\ workers'[w] = Idle
    /\ workers[w].context_id \in destroyed

(* C18: a session that DestroyContext has removed stays removed while an   *)
(* InvokeMethod that had resolved it before goes on and updates the object *)
(* it holds: the id is in self.contexts in no later state, an InspectState *)
(* or InvokeMethod that starts afterwards answers "Context not found", and *)
(* the update changes the state of no session.                             *)
C18_DestroyNotUndone ==
    [][ /\ \A id \in destroyed' : id \notin DOMAIN contexts'
        /\ ( /\ workers' = workers
             /\ last'.op \in {"InspectState", "InvokeMethod"}
             /\ last'.context_id \in destroyed )
           => ( /\ ~last'.success
                /\ last'.error = ContextNotFound(last'.context_id) )
        /\ \A w \in Workers :
              WritesToDestroyed(w)
              => ( /\ contexts' = contexts
                   /\ \A s \in DOMAIN contexts :
                         heap'[contexts[s]] = heap[contexts[s]] ) ]_vars

\* An invocation has answered success on a session that was destroyed
\* while it ran; another session is there, its state still empty.
C18_Witness ==
    /\ last.op = "InvokeMethod"
    /\ last.success
    /\ last.context_id \in destroyed
    /\ last.context_id \notin DOMAIN contexts
    /\ \E s \in DOMAIN contexts : heap[contexts[s]].state = Obj(<<>>)

\* No handler on a worker holds session s.
Quiet(s) == \A w \in Workers : workers[w].context_id # s

(* C19: with counter_increment invocations interleaved on one session      *)
(* created with the empty state, the counter is never more than the number *)
(* of invocations started on the session, every value returned is between  *)
(* 1 and that number, and once all of them have ended the counter is at    *)
(* least 1: updates can be lost, the counter is never too high.            *)
C19_CounterNeverInflated ==
    /\ \A s \in DOMAIN contexts :
          /\ CounterOf(heap[contexts[s]]) <= calls[s]
          /\ (calls[s] >= 1 /\ Quiet(s)) => CounterOf(heap[contexts[s]]) >= 1
    /\ ( /\ last.op = "InvokeMethod"
         /\ last.success )
       => \E v \in 1..calls[last.context_id] : last.result = <<Num(v)>>

\* A lost update: two invocations on a session have ended, both returned
\* 1 and the counter is 1.
C19_Witness ==
    /\ last.op = "InvokeMethod"
    /\ last.success
    /\ last.result = <<Num(1)>>
    /\ last.context_id \in DOMAIN contexts
    /\ calls[last.context_id] = 2
    /\ Quiet(last.context_id)
    /\ CounterOf(heap[contexts[last.context_id]]) = 1

====
